---- MODULE Spec2Model ----
(***************************************************************************)
(* ScmRouter (src/index.js): a registry of scm plugins keyed by scmContext *)
(* and the operations that dispatch to them.  The registry is the ordered  *)
(* own-property list of the JavaScript object this.scms; promises are      *)
(* records [st, val]; every backend call is logged in calls.               *)
(***************************************************************************)
EXTENDS Integers, Sequences, FiniteSets, TLC

\* ------------------------------------------------------------------ bounds
MaxDescriptors == 2
MaxLoads == 1

\* ------------------------------------------------------------ JS values
\* Every JavaScript value the router handles is a record [t, i, m]:
\* t is the kind, i an instance number, m a method name or message.
Val(t, i, m) == [t |-> t, i |-> i, m |-> m]
Undefined == Val("undefined", 0, "")
Null == Val("null", 0, "")
Bool(b) == Val("boolean", 0, IF b THEN "true" ELSE "false")
ScmObj(i) == Val("scm", i, "")
\* an Error: i is its statusCode (0 when it has none), m its message
ErrorMsg(msg) == Val("Error", 0, msg)
ErrorWithStatus(code, msg) == Val("Error", code, msg)
TypeErr == Val("TypeError", 0, "is not a function")
BackendValue(i, m) == Val("value", i, m)
BackendError(i, m) == Val("backendError", i, m)
\* Object.prototype.constructor, which every {} inherits
ObjectFunction == Val("function", 0, "Object")

Truthy(v) == v.t \notin {"undefined", "null"} /\ v # Bool(FALSE)

NoScmConfig == "No scm config passed in."
NotImplemented == "Not implemented"
CannotParse == "Cannot parse this webhook."
\* whatever the plugin's own constructor threw
PluginConstructorError == "plugin constructor"

\* --------------------------------------------------------------- plugins
\* The npm modules a descriptor can name.  "DNE" is not installed (require
\* throws); "broken" throws from its constructor; "blank" reports [''],
\* "objctx" reports [{...}] and "nokeys" reports [] from getScmContexts;
\* "multi" reports two keys.  "router" is screwdriver-scm-router itself, whose
\* constructor throws when it is given no scms.
Plugins == {"github", "gitlab", "example", "multi", "blank", "objctx", "nokeys",
            "broken", "router", "DNE"}
Installed == Plugins \ {"DNE"}

Str(s) == [isStr |-> TRUE, s |-> s]
NotStr == [isStr |-> FALSE, s |-> "object"]

GetScmContexts(plugin) ==
    CASE plugin = "github" -> <<Str("github:github.com")>>
      [] plugin = "gitlab" -> <<Str("gitlab:gitlab.com")>>
      [] plugin = "example" -> <<Str("example:github.com")>>
      [] plugin = "multi" -> <<Str("example:github.com"), Str("gitlab:gitlab.com")>>
      [] plugin = "blank" -> <<Str("")>>
      [] plugin = "objctx" -> <<NotStr>>
      [] OTHER -> <<>>

Contexts == {"github:github.com", "gitlab:gitlab.com", "example:github.com"}

\* -------------------------------------------------------------- registry
\* this.scms: own properties in insertion order, each [key, inst].
Keys(reg) == {reg[i].key : i \in 1..Len(reg)}
IndexOf(reg, key) == CHOOSE i \in 1..Len(reg) : reg[i].key = key

\* this.scms[key]: an own property, else what {} inherits from Object.prototype
Get(reg, key) ==
    IF key \in Keys(reg) THEN ScmObj(reg[IndexOf(reg, key)].inst)
    ELSE IF key = "constructor" THEN ObjectFunction
    ELSE Undefined

TypeofObject(v) == v.t \in {"scm", "null"}

\* the check without !scmContext for a string: typeof scmContext !== 'string'
IllegalScmContextTypeOnly(scmContexts) ==
    Len(scmContexts) = 0 \/ ~scmContexts[1].isStr

\* !scmContext || typeof scmContext !== 'string'
IllegalScmContext(scmContexts) ==
    Len(scmContexts) = 0 \/ ~scmContexts[1].isStr \/ scmContexts[1].s = ""

\* a loadPlugin without the duplicate check
DuplicateNever(reg, key) == FALSE

\* typeof this.scms[scmContext] === 'object'
Duplicate(reg, key) == TypeofObject(Get(reg, key))

\* if (plugin === 'router')
IsRouter(plugin) == plugin = "router"

\* a require that never throws
RequirableAlways(plugin) == TRUE

\* ScmPlugin = require(`screwdriver-scm-${plugin}`) does not throw
Requirable(plugin) == plugin \in Installed

\* a loadPlugin that swallows the plugin constructor's error
ConstructorNeverThrows(plugin) == FALSE

\* new ScmPlugin(options) throws
ConstructorThrows(plugin) == plugin \in {"broken", "router"}

\* a loadPlugin whose duplicate branch rebinds the key to the new instance
LoadPluginOverwrite(reg, plugin, n) ==
    IF IsRouter(plugin) \/ ~Requirable(plugin)
    THEN [scms |-> reg, made |-> n, threw |-> FALSE]
    ELSE IF ConstructorThrows(plugin) THEN [scms |-> reg, made |-> n, threw |-> TRUE]
    ELSE LET scmContexts == GetScmContexts(plugin) IN
         IF IllegalScmContext(scmContexts)
         THEN [scms |-> reg, made |-> n + 1, threw |-> FALSE]
         ELSE IF Duplicate(reg, scmContexts[1].s)
         THEN [scms |-> [reg EXCEPT ![IndexOf(reg, scmContexts[1].s)].inst = n + 1],
               made |-> n + 1, threw |-> FALSE]
         ELSE [scms |-> Append(reg, [key |-> scmContexts[1].s, inst |-> n + 1]),
               made |-> n + 1, threw |-> FALSE]

\* loadPlugin(plugin, options) on registry reg when n instances exist:
\* the registry afterwards, the instances made, and whether it threw.
LoadPlugin(reg, plugin, n) ==
    IF IsRouter(plugin) THEN [scms |-> reg, made |-> n, threw |-> FALSE]
    ELSE IF ~Requirable(plugin) THEN [scms |-> reg, made |-> n, threw |-> FALSE]
    ELSE IF ConstructorThrows(plugin) THEN [scms |-> reg, made |-> n, threw |-> TRUE]
    ELSE LET scmContexts == GetScmContexts(plugin) IN
         IF IllegalScmContext(scmContexts)
         THEN [scms |-> reg, made |-> n + 1, threw |-> FALSE]
         ELSE IF Duplicate(reg, scmContexts[1].s)
         THEN [scms |-> reg, made |-> n + 1, threw |-> FALSE]
         ELSE [scms |-> Append(reg, [key |-> scmContexts[1].s, inst |-> n + 1]),
               made |-> n + 1, threw |-> FALSE]

\* A descriptor config.scms[displayName]: its plugin, its shape, and whether
\* its config has a displayName field of its own.
\*   "object"    {plugin, config: {...}}      "noconfig"  {plugin}
\*   "string"    a string instead of a map    "badconfig" {plugin, config: 'config'}
Shapes == {"object", "noconfig", "string", "badconfig"}
Descriptors ==
    {d \in [plugin : Plugins, shape : Shapes, dn : BOOLEAN] :
        d.dn => d.shape = "object"}

\* the first check alone: typeof scm !== 'object'
BadShapeDescriptorOnly(d) == d.shape = "string"

\* typeof scm !== 'object', or scm.config && typeof scm.config !== 'object'
BadShape(d) == d.shape \in {"string", "badconfig"}

VARIABLES
    scms,      \* this.scms
    ctor,      \* "running" | "done" | "threw": the constructor's position
    err,       \* the message of the error the constructor threw ("" if none)
    todo,      \* descriptors of config.scms the forEach has still to visit
    seen,      \* descriptors the forEach has visited (forgotten once the router is used)
    made,      \* plugin instances made so far (the next one is made + 1)
    loads,     \* loadPlugin calls made after construction
    op,        \* the router call in flight, "idle" when none
    method,    \* the capability a passthrough call delegates to
    hook,      \* the headers/payload of the webhook call in flight
    config,    \* the config of the chooseScm / passthrough call in flight
    snap,      \* this.scms as it was when the call started
    preds,     \* async.detect's iteratee calls: [inst, st] per backend
    chosen,    \* the promise of chooseWebhookScm / chooseScm inside the call
    cap,       \* the promise of the delegated backend call: [st, inst, val]
    ret,       \* the promise the router call returned
    calls,     \* backend methods invoked during the call, in order
    jobs,      \* allScm, stats: what fn(scm) / scm.stats() gave: [inst, key, st, result, at]
    map        \* the object or array the call builds, a set of <<key, value>> entries

vars == <<scms, ctor, err, todo, seen, made, loads, op, method, hook, config,
          snap, preds, chosen, cap, ret, calls, jobs, map>>

regVars == <<scms, ctor, err, todo, seen, made, loads>>
usedVars == <<scms, ctor, err, todo, made, loads>>
fanVars == <<jobs, map>>
callVars == <<op, method, hook, config, snap, preds, chosen, cap, ret, calls, jobs, map>>

Promise(st, val) == [st |-> st, val |-> val]
NoPromise == Promise("none", Undefined)
Pending == Promise("pending", Undefined)
Resolved(v) == Promise("resolved", v)
Rejected(v) == Promise("rejected", v)
Settled(p) == p.st \in {"resolved", "rejected"}
\* what a synchronous method did: returned a value or threw
Returned(v) == Promise("returned", v)
Threw(v) == Promise("threw", v)
Completed(p) == p.st \in {"returned", "threw"}

NoCap == [st |-> "none", inst |-> 0, val |-> Undefined]
NoHook == "none"
NoConfig == [present |-> FALSE, id |-> 0, sc |-> [ty |-> "missing", s |-> ""],
             host |-> Undefined]

Idle ==
    /\ op = "idle" /\ method = "" /\ hook = NoHook /\ config = NoConfig
    /\ snap = <<>> /\ preds = <<>> /\ chosen = NoPromise /\ cap = NoCap
    /\ ret = NoPromise /\ calls = <<>>
    /\ jobs = <<>> /\ map = {}

\* constructor(config = {}): this.scms = {}, then the forEach over config.scms.
\* todo = 0 is both an empty config.scms and one that is not an object (the
\* forEach is skipped).
Init ==
    /\ scms = <<>>
    /\ ctor = "running"
    /\ err = ""
    /\ todo \in 0..MaxDescriptors
    /\ seen = <<>>
    /\ made = 0
    /\ loads = 0
    /\ Idle

\* one iteration of Object.keys(scmsConfig).forEach
CtorDescriptor ==
    /\ ctor = "running"
    /\ todo > 0
    /\ \E d \in Descriptors :
        /\ seen' = Append(seen, d)
        /\ IF BadShape(d)
           THEN /\ ctor' = "threw"
                /\ err' = NoScmConfig
                /\ UNCHANGED <<scms, made>>
           ELSE LET r == LoadPlugin(scms, d.plugin, made) IN
                /\ scms' = r.scms
                /\ made' = r.made
                /\ ctor' = IF r.threw THEN "threw" ELSE "running"
                /\ err' = IF r.threw THEN PluginConstructorError ELSE ""
    /\ todo' = todo - 1
    /\ UNCHANGED <<loads, callVars>>

\* a constructor without the final check
NoScmRegisteredNever(reg) == FALSE

\* Object.keys(this.scms).length === 0
NoScmRegistered(reg) == Len(reg) = 0

\* if (Object.keys(this.scms).length === 0) throw; else the router is returned
CtorFinish ==
    /\ ctor = "running"
    /\ todo = 0
    /\ ctor' = IF NoScmRegistered(scms) THEN "threw" ELSE "done"
    /\ err' = IF NoScmRegistered(scms) THEN NoScmConfig ELSE ""
    /\ UNCHANGED <<scms, todo, seen, made, loads, callVars>>

\* loadPlugin called on the constructed router
LoadPluginCall ==
    /\ ctor = "done"
    /\ loads < MaxLoads
    /\ \E plugin \in Plugins :
        LET r == LoadPlugin(scms, plugin, made) IN
        /\ scms' = r.scms
        /\ made' = r.made
    /\ loads' = loads + 1
    /\ seen' = <<>>
    /\ UNCHANGED <<ctor, err, todo, callVars>>

\* the keys of reg, last registered first
ScmContextsReversed(reg) == [i \in 1..Len(reg) |-> reg[Len(reg) + 1 - i].key]

\* _getScmContexts(): Object.keys(this.scms)
ScmContexts(reg) == [i \in 1..Len(reg) |-> reg[i].key]

\* --------------------------------------------------------- router calls
Hooks == {"hookA", "hookB"}

\* What a backend's canHandleWebhook promise can settle to: resolved with
\* true, false or undefined, or rejected (a throw inside the asynchronous
\* predicate is a rejection of the promise it returned).
Outcomes == {"true", "false", "undefined", "reject"}

Call(inst, m, h, c) == [inst |-> inst, method |-> m, hook |-> h, config |-> c]

\* scm.canHandleWebhook(headers, payload)
PredicateCall(inst, h) == Call(inst, "canHandleWebhook", h, NoConfig)

\* the iteratee without its test of the result: cb(scm)
ThenCbUnchecked(result, scm) == scm

\* .then(result => cb(result === false ? null : scm))
ThenCb(result, scm) == IF result = "false" THEN Null ELSE scm

\* a catch handler that hands the error on: cb(err)
CatchCbPropagates(scm) == ErrorMsg("canHandleWebhook failed")

\* .catch(err => { logger.error(err); cb(null); })
CatchCb(scm) == Null

\* the value the iteratee hands to async.detect's cb when the promise settles
IterateeCb(outcome, scm) ==
    IF outcome = "reject" THEN CatchCb(scm) ELSE ThenCb(outcome, scm)

\* a detect whose final callback runs for every later truthy result too
DetectCallbackRepeats(p, cbval, allBack) ==
    IF Truthy(cbval) THEN Resolved(cbval)
    ELSE IF p.st # "pending" THEN p
    ELSE IF allBack THEN Resolved(Null)
    ELSE p

\* async.detect calls its final callback once: with the first truthy cb
\* value, or with nothing once every iteratee has called back.
DetectCallback(p, cbval, allBack) ==
    IF p.st # "pending" THEN p
    ELSE IF Truthy(cbval) THEN Resolved(cbval)
    ELSE IF allBack THEN Resolved(Null)
    ELSE p

\* a detect that leaves the last registered backend out
DetectStartSkipsLast(reg, h) ==
    [preds |-> [i \in 1..(Len(reg) - 1) |-> [inst |-> reg[i].inst, st |-> "pending"]],
     calls |-> [i \in 1..(Len(reg) - 1) |-> PredicateCall(reg[i].inst, h)]]

\* async.detect(this.scms, iteratee, ...) applies the iteratee to every
\* own property at once, in Object.keys order.
DetectStart(reg, h) ==
    [preds |-> [i \in 1..Len(reg) |-> [inst |-> reg[i].inst, st |-> "pending"]],
     calls |-> [i \in 1..Len(reg) |-> PredicateCall(reg[i].inst, h)]]

WebhookOps == {"chooseWebhookScm", "_parseHook", "_canHandleWebhook"}

\* chooseWebhookScm(headers, payload), called directly or by _parseHook or
\* _canHandleWebhook
StartWebhook ==
    /\ ctor = "done"
    /\ op = "idle"
    /\ \E o \in WebhookOps, h \in Hooks :
        LET d == DetectStart(scms, h) IN
        /\ op' = o
        /\ hook' = h
        /\ preds' = d.preds
        /\ calls' = d.calls
        /\ chosen' = DetectCallback(Pending, Null, Len(scms) = 0)
        /\ ret' = IF o = "chooseWebhookScm"
                  THEN DetectCallback(Pending, Null, Len(scms) = 0)
                  ELSE Pending
    /\ snap' = scms
    /\ seen' = <<>>
    /\ UNCHANGED <<usedVars, method, config, cap, fanVars>>

\* one backend's canHandleWebhook promise settles and its handler runs
PredicateSettles ==
    /\ op \in WebhookOps
    /\ \E i \in 1..Len(preds), outcome \in Outcomes :
        /\ preds[i].st = "pending"
        /\ preds' = [preds EXCEPT ![i].st = outcome]
        /\ LET allBack == \A j \in 1..Len(preds) : preds'[j].st # "pending"
               p == DetectCallback(chosen, IterateeCb(outcome, ScmObj(preds[i].inst)),
                                   allBack)
           IN /\ chosen' = p
              /\ ret' = IF op = "chooseWebhookScm" THEN p ELSE ret
    /\ UNCHANGED <<regVars, op, method, hook, config, snap, cap, calls, fanVars>>

\* the same error without err.statusCode = 400
NoHandlerErrorNoStatus == ErrorMsg(CannotParse)

\* the error _parseHook rejects with when chooseWebhookScm found no scm
NoHandlerError == ErrorWithStatus(400, CannotParse)

\* the delegated call without its arguments: scm.parseHook()
ParseHookCallNoArgs(scm, h) == Call(scm.i, "parseHook", NoHook, NoConfig)

\* scm.parseHook(headers, payload)
ParseHookCall(scm, h) == Call(scm.i, "parseHook", h, NoConfig)

\* _parseHook: chooseWebhookScm(headers, payload).then(scm => ...)
ParseHookThen ==
    /\ op = "_parseHook"
    /\ chosen.st = "resolved"
    /\ ret.st = "pending"
    /\ cap.st = "none"
    /\ IF ~Truthy(chosen.val)
       THEN /\ ret' = Rejected(NoHandlerError)
            /\ UNCHANGED <<cap, calls>>
       ELSE /\ calls' = Append(calls, ParseHookCall(chosen.val, hook))
            /\ cap' = [st |-> "pending", inst |-> chosen.val.i, val |-> Undefined]
            /\ UNCHANGED ret
    /\ UNCHANGED <<regVars, op, method, hook, config, snap, preds, chosen, fanVars>>

\* a handler that ignores what was chosen: .then(() => true)
CanHandleResultAlways(scm) == Bool(TRUE)

\* .then(scm => Boolean(scm))
CanHandleResult(scm) == Bool(Truthy(scm))

\* _canHandleWebhook: chooseWebhookScm(...).then(scm => Boolean(scm)).catch(() => false)
CanHandleThen ==
    /\ op = "_canHandleWebhook"
    /\ Settled(chosen)
    /\ ret.st = "pending"
    /\ ret' = IF chosen.st = "resolved"
              THEN Resolved(CanHandleResult(chosen.val))
              ELSE Resolved(Bool(FALSE))
    /\ UNCHANGED <<regVars, op, method, hook, config, snap, preds, chosen, cap, calls, fanVars>>

\* The configs a caller can pass: none at all, or an object whose scmContext
\* is missing, a number, or a string (registered or not, or the name of a
\* property every object inherits).  id tells two config objects apart.
ScmContextValues ==
    {[ty |-> "missing", s |-> ""], [ty |-> "number", s |-> "7"]}
    \cup {[ty |-> "string", s |-> k] : k \in Contexts \cup {"hoge:hoge.com", "constructor"}}
Configs ==
    {NoConfig}
    \cup [present : {TRUE}, id : {1, 2}, sc : ScmContextValues, host : {Undefined}]

\* a chooseScm that returns the first registered scm for any known key
ChooseScmFirst(reg, c) ==
    IF c.present /\ c.sc.ty = "string" /\ Truthy(Get(reg, c.sc.s))
    THEN Resolved(ScmObj(reg[1].inst))
    ELSE Rejected(ErrorMsg(NotImplemented))

\* async chooseScm(config): the promise it returns
ChooseScm(reg, c) ==
    IF c.present /\ c.sc.ty = "string" /\ Truthy(Get(reg, c.sc.s))
    THEN Resolved(Get(reg, c.sc.s))
    ELSE Rejected(ErrorMsg(NotImplemented))

\* chooseScm(config) called directly
StartChooseScm ==
    /\ ctor = "done"
    /\ op = "idle"
    /\ \E c \in Configs :
        /\ config' = c
        /\ chosen' = ChooseScm(scms, c)
        /\ ret' = ChooseScm(scms, c)
    /\ op' = "chooseScm"
    /\ snap' = scms
    /\ seen' = <<>>
    /\ UNCHANGED <<usedVars, method, hook, preds, cap, calls, fanVars>>

\* The asynchronous passthrough capabilities, by the backend method they call
\* (_addWebhook -> addWebhook, _getFile -> getFile, _openPr -> openPr, ...).
Methods == {"addWebhook", "getFile", "openPr"}

\* the delegated call without its argument: scm.<method>()
PassthroughCallNoArg(scm, m, c) == Call(scm.i, m, NoHook, NoConfig)

\* scm.<method>(config)
PassthroughCall(scm, m, c) == Call(scm.i, m, NoHook, c)

\* _<method>(config): this.chooseScm(config) ...
StartPassthrough ==
    /\ ctor = "done"
    /\ op = "idle"
    /\ \E m \in Methods, c \in Configs :
        /\ method' = m
        /\ config' = c
        /\ chosen' = ChooseScm(scms, c)
    /\ op' = "passthrough"
    /\ ret' = Pending
    /\ snap' = scms
    /\ seen' = <<>>
    /\ UNCHANGED <<usedVars, hook, preds, cap, calls, fanVars>>

\* ... .then(scm => scm.<method>(config))
PassthroughThen ==
    /\ op = "passthrough"
    /\ ret.st = "pending"
    /\ cap.st = "none"
    /\ IF chosen.st = "rejected"
       THEN /\ ret' = chosen
            /\ UNCHANGED <<cap, calls>>
       ELSE IF chosen.val.t # "scm"
       THEN /\ ret' = Rejected(TypeErr)
            /\ UNCHANGED <<cap, calls>>
       ELSE /\ calls' = Append(calls, PassthroughCall(chosen.val, method, config))
            /\ cap' = [st |-> "pending", inst |-> chosen.val.i, val |-> Undefined]
            /\ UNCHANGED ret
    /\ UNCHANGED <<regVars, op, method, hook, config, snap, preds, chosen, fanVars>>

\* ------------------------------------------------------------- allScm
\* What fn(scm) can resolve to: an object holding a key of the backend's own
\* (its scmContext stands for it), a key every backend uses, or both; each
\* value is the backend's instance number.
CommonKey == "common"
ResultShapes == {"own", "common", "both"}
ResultOf(job, shape) ==
    {<<k, job.inst>> : k \in (IF shape = "common" THEN {} ELSE {job.key})
                             \cup (IF shape = "own" THEN {} ELSE {CommonKey})}

\* Object.assign with its arguments swapped: entries already in map are kept
ObjectAssignKeep(target, source) ==
    target \cup {e \in source : \A t \in target : t[1] # e[1]}

\* Object.assign(map, result)
ObjectAssign(target, source) ==
    {t \in target : \A e \in source : e[1] # t[1]} \cup source

\* results.forEach(result => Object.assign(map, result)), over the first n
RECURSIVE MergeResults(_, _)
MergeResults(js, n) ==
    IF n = 0 THEN {} ELSE ObjectAssign(MergeResults(js, n - 1), js[n].result)

\* a Promise.all that waits for every promise and never rejects
PromiseAllSettledOnly(p, js, i) ==
    IF p.st # "pending" THEN p
    ELSE IF \A j \in 1..Len(js) : js[j].st # "pending"
    THEN Resolved(Val("object", 0, "map"))
    ELSE p

\* Promise.all(...) when promise i of js has just settled: it rejects with
\* the first rejection it sees and resolves once every promise has resolved.
PromiseAll(p, js, i) ==
    IF p.st # "pending" THEN p
    ELSE IF js[i].st = "rejected" THEN Rejected(BackendError(js[i].inst, "fn"))
    ELSE IF \A j \in 1..Len(js) : js[j].st = "resolved"
    THEN Resolved(Val("object", 0, "map"))
    ELSE p

\* how many of the promises have settled: the next one to settle is number
\* NumSettled + 1 in time
NumSettled(js) == Cardinality({j \in 1..Len(js) : js[j].st # "pending"})

\* fn(this.scms[key])
FnCall(inst) == Call(inst, "fn", NoHook, NoConfig)

\* allScm(fn): Object.keys(this.scms).map(key => fn(this.scms[key]))
StartAllScm ==
    /\ ctor = "done"
    /\ op = "idle"
    /\ op' = "allScm"
    /\ snap' = scms
    /\ jobs' = [i \in 1..Len(scms) |->
                   [inst |-> scms[i].inst, key |-> scms[i].key,
                    st |-> "pending", result |-> {}, at |-> 0]]
    /\ calls' = [i \in 1..Len(scms) |-> FnCall(scms[i].inst)]
    /\ map' = {}
    /\ ret' = Pending
    /\ seen' = <<>>
    /\ UNCHANGED <<usedVars, method, hook, config, preds, chosen, cap>>

\* one fn(scm) promise settles; when Promise.all settles with it, allScm
\* merges the results into map and returns it, or rejects
FnSettles ==
    /\ op = "allScm"
    /\ \E i \in 1..Len(jobs) :
        /\ jobs[i].st = "pending"
        /\ \/ \E shape \in ResultShapes :
                jobs' = [jobs EXCEPT ![i].st = "resolved",
                                     ![i].at = NumSettled(jobs) + 1,
                                     ![i].result = ResultOf(jobs[i], shape)]
           \/ jobs' = [jobs EXCEPT ![i].st = "rejected",
                                   ![i].at = NumSettled(jobs) + 1]
        /\ ret' = PromiseAll(ret, jobs', i)
        /\ map' = IF ret.st = "pending" /\ ret'.st = "resolved"
                  THEN MergeResults(jobs', Len(jobs'))
                  ELSE map
    /\ UNCHANGED <<regVars, op, method, hook, config, snap, preds, chosen, cap, calls>>

\* ------------------------------------------------ synchronous methods
StringVal(str) == Val("string", 0, str)

\* scmContext.split(':')
Split(key) ==
    CASE key = "github:github.com" -> <<"github", "github.com">>
      [] key = "gitlab:gitlab.com" -> <<"gitlab", "gitlab.com">>
      [] key = "example:github.com" -> <<"example", "github.com">>
      [] OTHER -> <<key>>

\* scmContext.split(':')[1]
HostPart(key) ==
    IF Len(Split(key)) >= 2 THEN StringVal(Split(key)[2]) ELSE Undefined

\* the hostnames a caller passes: known hosts, an unknown one, or none
Hostnames == {StringVal(h) : h \in {"github.com", "gitlab.com", "hoge.com"}} \cup {Undefined}
HostConfigs ==
    [present : {TRUE}, id : {1}, sc : {[ty |-> "missing", s |-> ""]}, host : Hostnames]

\* Object.keys(this.scms).findLast(...): the latest match
GetScmContextLast(reg, hostname) ==
    LET hits == {i \in 1..Len(reg) : HostPart(reg[i].key) = hostname}
    IN IF hits = {} THEN Undefined
       ELSE StringVal(reg[CHOOSE i \in hits : \A j \in hits : j <= i].key)

\* Object.keys(this.scms).find(scmContext => scmContext.split(':')[1] === hostname)
GetScmContext(reg, hostname) ==
    LET hits == {i \in 1..Len(reg) : HostPart(reg[i].key) = hostname}
    IN IF hits = {} THEN Undefined
       ELSE StringVal(reg[CHOOSE i \in hits : \A j \in hits : i <= j].key)

\* _getScmContext({ hostname })
GetScmContextCall ==
    /\ ctor = "done"
    /\ op = "idle"
    /\ \E c \in HostConfigs :
        /\ config' = c
        /\ ret' = Returned(GetScmContext(scms, c.host))
    /\ op' = "_getScmContext"
    /\ snap' = scms
    /\ seen' = <<>>
    /\ UNCHANGED <<usedVars, method, hook, preds, chosen, cap, calls, fanVars>>

\* _getScmContexts()
GetScmContextsCall ==
    /\ ctor = "done"
    /\ op = "idle"
    /\ op' = "_getScmContexts"
    /\ map' = {<<i, ScmContexts(scms)[i]>> : i \in 1..Len(scms)}
    /\ ret' = Returned(Val("array", 0, "map"))
    /\ snap' = scms
    /\ seen' = <<>>
    /\ UNCHANGED <<usedVars, method, hook, config, preds, chosen, cap, calls, jobs>>

\* The methods that read this.scms[config.scmContext] themselves, by the
\* backend method they call.
SyncMethods == {"getDisplayName", "getReadOnlyInfo", "autoDeployKeyGenerationEnabled",
                "getWebhookEventsMapping"}

\* the property name config.scmContext is turned into
PropertyName(sc) == IF sc.ty = "missing" THEN "undefined" ELSE sc.s

\* scm.<method>(): called without arguments
SyncCall(inst, m) == Call(inst, m, NoHook, NoConfig)

\* a facade that guards the lookup and returns undefined for an unknown key
SyncFacadeLenient(reg, m, c, ok) ==
    IF ~c.present THEN [ret |-> Threw(TypeErr), calls |-> <<>>]
    ELSE LET scm == Get(reg, PropertyName(c.sc)) IN
         IF scm.t # "scm" THEN [ret |-> Returned(Undefined), calls |-> <<>>]
         ELSE [ret |-> IF ok THEN Returned(BackendValue(scm.i, m))
                       ELSE Threw(BackendError(scm.i, m)),
               calls |-> <<SyncCall(scm.i, m)>>]

\* return this.scms[config.scmContext].<method>(): what it returns or throws
\* and the backend calls it makes; ok tells whether the backend's method
\* returns or throws.
SyncFacade(reg, m, c, ok) ==
    IF ~c.present THEN [ret |-> Threw(TypeErr), calls |-> <<>>]
    ELSE LET scm == Get(reg, PropertyName(c.sc)) IN
         IF scm.t # "scm" THEN [ret |-> Threw(TypeErr), calls |-> <<>>]
         ELSE [ret |-> IF ok THEN Returned(BackendValue(scm.i, m))
                       ELSE Threw(BackendError(scm.i, m)),
               calls |-> <<SyncCall(scm.i, m)>>]

\* getDisplayName(config), getReadOnlyInfo(config),
\* autoDeployKeyGenerationEnabled(config), _getWebhookEventsMapping(config)
SyncFacadeCall ==
    /\ ctor = "done"
    /\ op = "idle"
    /\ \E m \in SyncMethods, c \in Configs, ok \in BOOLEAN :
        LET r == SyncFacade(scms, m, c, ok) IN
        /\ method' = m
        /\ config' = c
        /\ ret' = r.ret
        /\ calls' = r.calls
    /\ op' = "sync"
    /\ snap' = scms
    /\ seen' = <<>>
    /\ UNCHANGED <<usedVars, hook, preds, chosen, cap, fanVars>>

\* stats(): Object.keys(this.scms).forEach(key =>
\*     { result = Object.assign(result, this.scms[key].stats()); })
StatsCall ==
    /\ ctor = "done"
    /\ op = "idle"
    /\ \E shapes \in [1..Len(scms) -> ResultShapes] :
        /\ jobs' = [i \in 1..Len(scms) |->
                       LET j == [inst |-> scms[i].inst, key |-> scms[i].key,
                                 st |-> "returned", result |-> {}, at |-> i]
                       IN [j EXCEPT !.result = ResultOf(j, shapes[i])]]
        /\ map' = MergeResults(jobs', Len(scms))
    /\ calls' = [i \in 1..Len(scms) |-> SyncCall(scms[i].inst, "stats")]
    /\ ret' = Returned(Val("object", 0, "map"))
    /\ op' = "stats"
    /\ snap' = scms
    /\ seen' = <<>>
    /\ UNCHANGED <<usedVars, method, hook, config, preds, chosen, cap>>

\* the promise a backend capability returned settles; the router's promise,
\* which was resolved with it, settles the same way
CapabilitySettles ==
    /\ cap.st = "pending"
    /\ ret.st = "pending"
    /\ \E ok \in BOOLEAN :
        LET m == calls[Len(calls)].method
            p == IF ok THEN Resolved(BackendValue(cap.inst, m))
                 ELSE Rejected(BackendError(cap.inst, m))
        IN /\ cap' = [st |-> p.st, inst |-> cap.inst, val |-> p.val]
           /\ ret' = p
    /\ UNCHANGED <<regVars, op, method, hook, config, snap, preds, chosen, calls, fanVars>>

\* the caller has the settled promise; the next call can start
Return ==
    /\ op # "idle"
    /\ Settled(ret) \/ Completed(ret)
    /\ op' = "idle" /\ method' = "" /\ hook' = NoHook /\ config' = NoConfig
    /\ snap' = <<>> /\ preds' = <<>> /\ chosen' = NoPromise /\ cap' = NoCap
    /\ ret' = NoPromise /\ calls' = <<>>
    /\ jobs' = <<>> /\ map' = {}
    /\ UNCHANGED regVars

Next ==
    \/ CtorDescriptor
    \/ CtorFinish
    \/ LoadPluginCall
    \/ StartWebhook
    \/ PredicateSettles
    \/ ParseHookThen
    \/ CanHandleThen
    \/ StartChooseScm
    \/ StartPassthrough
    \/ PassthroughThen
    \/ StartAllScm
    \/ FnSettles
    \/ GetScmContextCall
    \/ GetScmContextsCall
    \/ SyncFacadeCall
    \/ StatsCall
    \/ CapabilitySettles
    \/ Return

Spec == Init /\ [][Next]_vars

\* Every canHandleWebhook promise settles in the end, and a handler attached
\* to a settled promise runs.
LiveSpec ==
    Init /\ [][Next]_vars /\ WF_vars(PredicateSettles) /\ WF_vars(CanHandleThen)

\* ------------------------------------------------------------ properties
AllBack == \A i \in 1..Len(preds) : preds[i].st # "pending"
Claims(i) == preds[i].st = "true"
Declines(i) == preds[i].st \in {"false", "reject"}
\* no predicate has resolved to something that is neither true nor false
BoolOutcomes == \A i \in 1..Len(preds) : preds[i].st # "undefined"
Registered(c, reg) == c.present /\ c.sc.ty = "string" /\ c.sc.s \in Keys(reg)
TimesCalled(c) == Cardinality({k \in 1..Len(calls) : calls[k] = c})

\* C1: chooseWebhookScm scans in registration order and stops at the first
\* match: a backend's canHandleWebhook is invoked only when every backend
\* registered before it has settled without claiming the webhook.
C1_SequentialScan ==
    op \in WebhookOps =>
        \A j \in 1..Len(preds) :
            TimesCalled(PredicateCall(preds[j].inst, hook)) > 0 =>
                \A i \in 1..(j - 1) : preds[i].st \notin {"pending", "true"}

\* C2: when several backends claim the webhook, the backend chooseWebhookScm
\* resolves to is the earliest-registered claimant, whatever the order in
\* which the predicates settle.
C2_EarliestClaimantWins ==
    (op \in WebhookOps /\ BoolOutcomes /\ chosen.st = "resolved" /\ Truthy(chosen.val)) =>
        \A i \in 1..Len(preds) :
            Claims(i) => \E j \in 1..i : chosen.val = ScmObj(preds[j].inst)

\* C3: when exactly one backend claims the webhook (the others resolve false
\* or reject), chooseWebhookScm resolves to that backend's registered
\* instance, whatever its position, and every backend registered before it
\* was asked with the same headers and payload.
C3_UniqueClaimantSelected ==
    (op \in WebhookOps /\ AllBack /\ BoolOutcomes) =>
        \A i \in 1..Len(preds) :
            (Claims(i) /\ \A j \in 1..Len(preds) : j # i => ~Claims(j)) =>
                /\ chosen = Resolved(ScmObj(snap[i].inst))
                /\ op = "chooseWebhookScm" => ret = Resolved(ScmObj(snap[i].inst))
                /\ \A j \in 1..(i - 1) :
                       TimesCalled(PredicateCall(snap[j].inst, hook)) > 0

C3_Witness ==
    /\ op = "chooseWebhookScm"
    /\ Len(preds) = 3
    /\ preds[1].st = "false" /\ preds[2].st = "false" /\ preds[3].st = "true"
    /\ ret = Resolved(ScmObj(snap[3].inst))

C5_NoClaimantRejects ==
    (op = "chooseWebhookScm" /\ AllBack /\ \A i \in 1..Len(preds) : Declines(i)) =>
        ret.st = "rejected"

\* C6: when no backend claims the webhook, _parseHook calls parseHook on no
\* backend and rejects with an error whose statusCode is 400, which is not
\* the 'Not implemented' error.
C6_ParseHookNoHandler ==
    (op = "_parseHook" /\ AllBack /\ \A i \in 1..Len(preds) : Declines(i)) =>
        /\ \A k \in 1..Len(calls) : calls[k].method # "parseHook"
        /\ cap = NoCap
        /\ ret.st \in {"pending", "rejected"}
        /\ ret.st = "rejected" =>
               /\ ret.val.t = "Error"
               /\ ret.val.i = 400
               /\ ret.val # ErrorMsg(NotImplemented)

C6_Witness ==
    /\ op = "_parseHook"
    /\ Len(preds) = 3
    /\ \A i \in 1..3 : preds[i].st = "false"
    /\ ret = Rejected(ErrorWithStatus(400, CannotParse))

\* C7: _canHandleWebhook never rejects; it resolves true only if some backend
\* claimed the webhook and false only if every backend was asked exactly once
\* and none claimed it, so that once all have answered it is true exactly
\* when one of them claimed.
C7_CanHandleWebhook ==
    op = "_canHandleWebhook" =>
        /\ ret.st # "rejected"
        /\ ret.st = "resolved" => ret.val \in {Bool(TRUE), Bool(FALSE)}
        /\ (BoolOutcomes /\ ret = Resolved(Bool(TRUE))) =>
               \E i \in 1..Len(preds) : Claims(i)
        /\ (BoolOutcomes /\ ret = Resolved(Bool(FALSE))) =>
               /\ AllBack
               /\ \A i \in 1..Len(preds) : ~Claims(i)
               /\ Len(calls) = Len(snap)
               /\ \A i \in 1..Len(snap) :
                      TimesCalled(PredicateCall(snap[i].inst, hook)) = 1

C7_Witness ==
    /\ op = "_canHandleWebhook"
    /\ Len(preds) = 3
    /\ \A i \in 1..3 : Declines(i)
    /\ ret = Resolved(Bool(FALSE))

\* C8: chooseScm with a registered scmContext resolves to the very instance
\* registered under that key and calls no backend method.
C8_ChooseScmRegistered ==
    (op = "chooseScm" /\ Registered(config, snap)) =>
        /\ ret = Resolved(ScmObj(snap[IndexOf(snap, config.sc.s)].inst))
        /\ calls = <<>>
        /\ cap = NoCap

C8_Witness ==
    /\ op = "chooseScm"
    /\ Len(snap) = 3
    /\ config.present /\ config.sc.ty = "string" /\ config.sc.s = snap[2].key
    /\ ret = Resolved(ScmObj(snap[2].inst))

\* C9: chooseScm with no config, no scmContext, a scmContext that is not a
\* string, or one that was never registered rejects with 'Not implemented'.
C9_UnregisteredRejects ==
    (op = "chooseScm" /\ ~Registered(config, snap)) =>
        ret = Rejected(ErrorMsg(NotImplemented))

\* C10: a passthrough capability called with a registered scmContext calls the
\* method of that name once, on the backend registered under the key and with
\* the same config, calls nothing else, and settles exactly as the backend's
\* promise settles.
C10_PassthroughDelegates ==
    (op = "passthrough" /\ Registered(config, snap)) =>
        LET inst == snap[IndexOf(snap, config.sc.s)].inst
            theCall == Call(inst, method, NoHook, config)
        IN /\ calls \in {<<>>, <<theCall>>}
           /\ cap.st # "none" => (calls = <<theCall>> /\ cap.inst = inst)
           /\ Settled(ret) =>
                  /\ calls = <<theCall>>
                  /\ ret.st = cap.st
                  /\ ret.val = cap.val
                  /\ ret.val \in {BackendValue(inst, method), BackendError(inst, method)}

C10_Witness ==
    /\ op = "passthrough"
    /\ Len(snap) = 3
    /\ method = "getFile"
    /\ config.present /\ config.id = 2 /\ config.sc.s = snap[3].key
    /\ calls = <<Call(snap[3].inst, "getFile", NoHook, config)>>
    /\ ret = Rejected(BackendError(snap[3].inst, "getFile"))

\* C11: allScm(fn) calls fn exactly once on every registered backend and on
\* nothing else; when it resolves, every fn promise has resolved and the map
\* holds, for every key of any result, the value of the last backend in
\* registry order whose result has the key, whatever order they settled in.
HasKey(j, k) == \E e \in jobs[j].result : e[1] = k
C11_AllScmMergesInRegistryOrder ==
    op = "allScm" =>
        /\ Len(calls) = Len(snap)
        /\ \A i \in 1..Len(snap) : TimesCalled(FnCall(snap[i].inst)) = 1
        /\ ret.st = "resolved" =>
            /\ \A j \in 1..Len(jobs) : jobs[j].st = "resolved"
            /\ \A e \in map :
                \E j \in 1..Len(jobs) :
                    /\ e \in jobs[j].result
                    /\ \A l \in (j + 1)..Len(jobs) : ~HasKey(l, e[1])
            /\ \A j \in 1..Len(jobs) : \A e \in jobs[j].result :
                \E m \in map : m[1] = e[1]

\* three backends, the first two colliding on a key: the later-registered of
\* the two settled first and still wins the key
C11_Witness ==
    /\ op = "allScm"
    /\ Len(jobs) = 3
    /\ ret.st = "resolved"
    /\ HasKey(1, CommonKey) /\ HasKey(2, CommonKey) /\ ~HasKey(3, CommonKey)
    /\ jobs[2].at < jobs[1].at
    /\ <<CommonKey, jobs[2].inst>> \in map
    /\ <<jobs[1].key, jobs[1].inst>> \in map

\* C12: once fn has failed for a backend, allScm is rejected with the error
\* of a failing backend: it never resolves, and no map is produced.
C12_AllScmRejectsAsAWhole ==
    (op = "allScm" /\ \E j \in 1..Len(jobs) : jobs[j].st = "rejected") =>
        /\ ret.st = "rejected"
        /\ \E j \in 1..Len(jobs) :
            jobs[j].st = "rejected" /\ ret.val = BackendError(jobs[j].inst, "fn")
        /\ map = {}

\* every backend but the last one succeeded, and every fn promise has settled
C12_Witness ==
    /\ op = "allScm"
    /\ Len(jobs) = 3
    /\ jobs[1].st = "resolved" /\ jobs[2].st = "resolved"
    /\ jobs[3].st = "rejected" /\ jobs[3].at = 1
    /\ ret = Rejected(BackendError(jobs[3].inst, "fn"))

\* C13: when fn fails for several backends, allScm's rejection is the error
\* of the earliest-registered failing backend, in every interleaving.
C13_EarliestFailureReported ==
    (op = "allScm" /\ ret.st = "rejected") =>
        \A j \in 1..Len(jobs) :
            jobs[j].st = "rejected" =>
                \E i \in 1..j : ret.val = BackendError(jobs[i].inst, "fn")

\* ---------------------------------------------- construction properties
\* the plugin names of the descriptors visited so far
SeenPlugins == [i \in 1..Len(seen) |-> seen[i].plugin]
\* descriptor i reached loadPlugin
Loaded(i) == seen[i].shape \in {"object", "noconfig"}
\* the first context key a plugin's instance reports, "" when it has none or
\* reports something that is not a string
FirstKey(p) ==
    LET c == GetScmContexts(p)
    IN IF Len(c) > 0 /\ c[1].isStr THEN c[1].s ELSE ""
Unresolvable == {"DNE"}
Reserved == {"router"}
Malformed == {"blank", "objctx", "nokeys"}
Failing == {"broken"}
\* loadPlugin returned without touching the registry and made n instances
Skipped(p, n) ==
    LoadPlugin(scms, p, made) = [scms |-> scms, made |-> made + n, threw |-> FALSE]

\* C14: once the constructor has processed every descriptor, it returns the
\* router only with a registry of at least one backend, and with an empty
\* registry it has thrown 'No scm config passed in.'.
C14_NoEmptyRouter ==
    /\ ctor = "done" => Len(scms) >= 1
    /\ (ctor = "threw" /\ err # PluginConstructorError) =>
          (Len(scms) = 0 \/ (seen # <<>> /\ ~Loaded(Len(seen))))
    /\ (ctor = "threw" /\ todo = 0 /\ \A i \in 1..Len(seen) : Loaded(i)
           /\ err # PluginConstructorError) =>
          (Len(scms) = 0 /\ err = NoScmConfig)

\* two descriptors were processed, an instance was made, nothing registered
C14_Witness ==
    /\ ctor = "threw" /\ err = NoScmConfig
    /\ todo = 0 /\ Len(seen) = 2 /\ Loaded(1) /\ Loaded(2)
    /\ made >= 1
    /\ Len(scms) = 0

\* the keys construction should leave registered after the first n
\* descriptors: the first key of every resolvable, unreserved plugin that is
\* a non-empty string not reported by an earlier descriptor
RECURSIVE Accepted(_, _)
Accepted(ds, n) ==
    IF n = 0 THEN <<>>
    ELSE LET prev == Accepted(ds, n - 1)
             p == ds[n].plugin
         IN IF \/ p \in Unresolvable \cup Reserved \cup Malformed
               \/ \E k \in 1..Len(prev) : prev[k] = FirstKey(p)
            THEN prev
            ELSE Append(prev, FirstKey(p))

\* C15: on the router construction returned, _getScmContexts lists exactly
\* the first keys of the backends that were not unresolvable, reserved,
\* malformed or duplicate, in the order their descriptors were processed.
C15_ScmContextsAreAcceptedKeys ==
    (ctor = "done" /\ seen # <<>>) =>
        ScmContexts(scms) = Accepted(seen, Len(seen))

C15_Witness ==
    /\ ctor = "done"
    /\ SeenPlugins = <<"gitlab", "multi">>
    /\ ScmContexts(scms) = <<"gitlab:gitlab.com", "example:github.com">>

C18_MalformedContextIsDiscarded ==
    /\ \A p \in Malformed : Skipped(p, 1)
    /\ \A i \in 1..Len(scms) : scms[i].key # ""
    /\ Keys(LoadPlugin(scms, "multi", made).scms) = Keys(scms) \cup {"example:github.com"}

\* multi registered under its first key, then blank was made and discarded
C18_Witness ==
    /\ ctor = "done"
    /\ SeenPlugins = <<"multi", "blank">> /\ Loaded(2)
    /\ made = 2
    /\ scms = <<[key |-> "example:github.com", inst |-> 1]>>

\* C19: a plugin constructor's error leaves loadPlugin as a throw; the
\* descriptor that met it is the last one the constructor visited, and the
\* constructor threw that error rather than returning a router.
C19_PluginConstructorErrorPropagates ==
    /\ \A p \in Failing : LoadPlugin(scms, p, made).threw
    /\ \A i \in 1..Len(seen) :
          (Loaded(i) /\ seen[i].plugin \in Failing) =>
              (i = Len(seen) /\ ctor = "threw" /\ err = PluginConstructorError)

\* github had registered when broken's constructor threw
C19_Witness ==
    /\ ctor = "threw" /\ err = PluginConstructorError
    /\ SeenPlugins = <<"github", "broken">>
    /\ Len(scms) = 1
    /\ todo = 0

\* C20: construction from descriptors of which one has no displayName in its
\* config does not return a router.
C20_MissingDisplayNameFails ==
    ctor = "done" => \A i \in 1..Len(seen) : seen[i].dn

\* C21: a descriptor that is not an object, or whose config is present and not
\* an object, is the last one the constructor visits: it throws 'No scm config
\* passed in.' there, having made no instance for it; a descriptor with no
\* config or an empty one goes to loadPlugin, and a loadable plugin it names
\* is registered.
Wellformed == {"github", "gitlab", "example"}
C22_GetScmContextByHost ==
    op = "_getScmContext" =>
        /\ ret.st = "returned"
        /\ ret.val # Undefined =>
              \E i \in 1..Len(snap) :
                  /\ ret.val = StringVal(snap[i].key)
                  /\ HostPart(snap[i].key) = config.host
                  /\ \A j \in 1..(i - 1) : HostPart(snap[j].key) # config.host
        /\ ret.val = Undefined =>
              \A i \in 1..Len(snap) : HostPart(snap[i].key) # config.host

\* two registered keys have the host github.com; the earlier one is returned
C22_Witness ==
    /\ op = "_getScmContext"
    /\ ScmContexts(snap) = <<"gitlab:gitlab.com", "example:github.com", "github:github.com">>
    /\ config.host = StringVal("github.com")
    /\ ret = Returned(StringVal("example:github.com"))

\* C23: chooseWebhookScm and allScm do not settle while a canHandleWebhook or
\* fn(backend) call they started is still pending.
C23_AwaitsInFlightCalls ==
    /\ (op \in WebhookOps /\ Settled(chosen)) => AllBack
    /\ (op = "allScm" /\ Settled(ret)) =>
          \A j \in 1..Len(jobs) : jobs[j].st # "pending"

\* C24: the registry only grows, and only through loadPlugin: every step
\* keeps each entry at its place, bound to its instance, and a step that
\* changes the registry is a loadPlugin (in the constructor or a later
\* call), not a step of a router operation.
C24_RegistryOnlyGrows ==
    [][/\ Len(scms) <= Len(scms')
       /\ \A i \in 1..Len(scms) : scms'[i] = scms[i]
       /\ scms' # scms =>
             /\ callVars' = callVars
             /\ Len(scms') = Len(scms) + 1
             /\ made' = made + 1
             /\ scms'[Len(scms')].inst = made'
             /\ ctor = "running" \/ loads' = loads + 1]_vars

\* a loadPlugin added gitlab while allScm was in flight; the call resolved and
\* the two backends it started with are still bound as they were
C24_Witness ==
    /\ op = "allScm" /\ ret.st = "resolved"
    /\ loads = 1
    /\ Len(snap) = 2 /\ Len(scms) = 3
    /\ scms[1] = snap[1] /\ scms[2] = snap[2]
    /\ scms[3] = [key |-> "gitlab:gitlab.com", inst |-> 3]

\* C25: chooseWebhookScm resolves to a backend only if that backend's
\* canHandleWebhook resolved to true.
C25_OnlyTrueSelects ==
    (op \in WebhookOps /\ chosen.st = "resolved" /\ chosen.val.t = "scm") =>
        \E i \in 1..Len(preds) :
            preds[i].inst = chosen.val.i /\ preds[i].st = "true"

\* C26: _parseHook calls parseHook at most once, on the backend
\* chooseWebhookScm resolved to and with the headers and payload it was
\* given, and settles as that backend's promise settles.
ParseHookCalls == {k \in 1..Len(calls) : calls[k].method = "parseHook"}
C26_ParseHookOnSelectedOnly ==
    op = "_parseHook" =>
        /\ Cardinality(ParseHookCalls) <= 1
        /\ \A k \in ParseHookCalls :
              /\ chosen.st = "resolved" /\ chosen.val.t = "scm"
              /\ \E i \in 1..Len(snap) : snap[i].inst = chosen.val.i
              /\ calls[k] = Call(chosen.val.i, "parseHook", hook, NoConfig)
              /\ calls[k].hook \in Hooks
              /\ cap.inst = chosen.val.i
        /\ cap.st # "none" => ParseHookCalls # {}
        /\ (Settled(ret) /\ ParseHookCalls # {}) =>
              /\ ret.st = cap.st /\ ret.val = cap.val
              /\ ret.val \in {BackendValue(chosen.val.i, "parseHook"),
                              BackendError(chosen.val.i, "parseHook")}
        /\ (Settled(ret) /\ ParseHookCalls = {}) => ret = Rejected(NoHandlerError)

\* of three backends only the second claimed the hook; its parseHook was
\* called with the hook and its result returned
C26_Witness ==
    /\ op = "_parseHook"
    /\ Len(preds) = 3
    /\ preds[1].st = "false" /\ preds[2].st = "true" /\ preds[3].st = "false"
    /\ calls[Len(calls)] = Call(preds[2].inst, "parseHook", hook, NoConfig)
    /\ ret = Resolved(BackendValue(preds[2].inst, "parseHook"))

\* C27: a passthrough capability called with a missing or unregistered
\* scmContext rejects with 'Not implemented' and calls no backend method.
C27_PassthroughUnregisteredRejects ==
    (op = "passthrough" /\ ~Registered(config, snap)) =>
        /\ calls = <<>>
        /\ Settled(ret) => ret = Rejected(ErrorMsg(NotImplemented))

\* C28: a synchronous facade method called with a registered scmContext calls
\* that backend's method of the same name once, calls nothing else, and
\* returns what it returned (or throws what it threw); called with an
\* unregistered scmContext it throws and calls no backend.
C28_SyncFacadeLooksUpDirectly ==
    op = "sync" =>
        IF Registered(config, snap)
        THEN LET inst == snap[IndexOf(snap, config.sc.s)].inst
             IN /\ calls = <<Call(inst, method, NoHook, NoConfig)>>
                /\ ret \in {Returned(BackendValue(inst, method)),
                            Threw(BackendError(inst, method))}
        ELSE /\ ret.st = "threw"
             /\ ret.val.t # "backendError"
             /\ calls = <<>>

C28_Witness ==
    /\ op = "sync"
    /\ Len(snap) = 3
    /\ method = "getReadOnlyInfo"
    /\ config.present /\ config.sc.ty = "string" /\ config.sc.s = snap[2].key
    /\ calls = <<Call(snap[2].inst, "getReadOnlyInfo", NoHook, NoConfig)>>
    /\ ret = Returned(BackendValue(snap[2].inst, "getReadOnlyInfo"))

\* C29: when every canHandleWebhook promise settles, chooseWebhookScm (and
\* _canHandleWebhook on top of it) settles: it is settled as soon as all
\* predicates are, every call that starts comes to settle, and once settled
\* its result is not changed by a predicate that completes later.
C29_SettlesExactlyOnce ==
    /\ []((op = "chooseWebhookScm" /\ AllBack) => Settled(ret))
    /\ [][(op = "chooseWebhookScm" /\ Settled(ret) /\ op' = op) => ret' = ret]_vars
    /\ [][(op \in WebhookOps /\ Settled(chosen) /\ op' = op) => chosen' = chosen]_vars
    /\ (op = "chooseWebhookScm") ~> Settled(ret)
    /\ (op = "_canHandleWebhook") ~> Settled(ret)

\* the second backend claimed first and was reported; the first and third
\* claimed afterwards and the result stayed
C29_Witness ==
    /\ op = "chooseWebhookScm"
    /\ Len(preds) = 3
    /\ \A i \in 1..3 : preds[i].st = "true"
    /\ ret = Resolved(ScmObj(preds[2].inst))

\* C30: a chooseWebhookScm or allScm call in flight asks exactly the backends
\* that were registered when it started, each once, and resolves to nothing
\* else, also when loadPlugin has added a backend since.
Insts(reg) == {reg[i].inst : i \in 1..Len(reg)}
C30_LateBackendIsNotAsked ==
    /\ op \in WebhookOps =>
          /\ [i \in 1..Len(preds) |-> preds[i].inst] = [i \in 1..Len(snap) |-> snap[i].inst]
          /\ \A i \in 1..Len(snap) :
                TimesCalled(PredicateCall(snap[i].inst, hook)) = 1
          /\ \A k \in 1..Len(calls) : calls[k].inst \in Insts(snap)
          /\ chosen.val.t = "scm" => chosen.val.i \in Insts(snap)
    /\ op = "allScm" =>
          /\ [i \in 1..Len(jobs) |-> jobs[i].inst] = [i \in 1..Len(snap) |-> snap[i].inst]
          /\ calls = [i \in 1..Len(snap) |-> FnCall(snap[i].inst)]
          /\ \A e \in map : e[2] \in Insts(snap)

\* loadPlugin registered gitlab while chooseWebhookScm was in flight; the
\* call asked the two earlier backends only and found no match
C30_Witness ==
    /\ op = "chooseWebhookScm"
    /\ Len(snap) = 2 /\ Len(scms) = 3 /\ loads = 1
    /\ scms[3].inst \notin Insts(snap)
    /\ Len(calls) = 2
    /\ preds[1].st = "false" /\ preds[2].st = "false"
    /\ ret = Resolved(Null)
====
